---- MODULE Spec2Model ----
(***************************************************************************)
(* Model of llm/datasets/sharded.py: DistributedShardedDataset (the       *)
(* per-rank view over a set of shards with a single-shard cache) and      *)
(* ResumableSequentialSampler; and of group_texts of                      *)
(* llm/trainers/gpt/data.py.                                               *)
(*                                                                         *)
(* A shard key is an integer 1..MaxShards (sorted() is ascending order).  *)
(* The parameters registered for a shard determine the content that the   *)
(* dataset type constructs from them; here the parameter of a shard is    *)
(* the length of that content, and the sample at offset o of the shard    *)
(* with key k is the pair <<k, o>>.  A content object is identified by    *)
(* the key of the parameters it was constructed from.                     *)
(***************************************************************************)
EXTENDS Integers, Sequences, FiniteSets, TLC

\* ---------------------------------------------------------------- bounds
MaxShards == 2
MaxLen == 2
MaxWorld == 3
MaxSeed == 1
MaxDataLen == 4
MaxIters == 2
MaxTexts == 2
MaxTextLen == 3
MaxBlock == 2

RngMod == 8

Keys == 1..MaxShards
NoKey == 0
NoSample == <<>>
AllCallers == {1, 2}
SamplerIds == {"orig", "resumed"}

\* ------------------------------------------------------------- variables
VARIABLES
    \* process-wide random generator state (module random)
    rng,
    \* constructor arguments
    shard_params, rank, world_size, shuffle, seed,
    \* position of __init__ and its locals
    vpc, scan_pos, index, shard,
    \* attributes of the view
    shard_keys, shard_indices, total_samples,
    current_shard_key, current_shard,
    \* callers of __getitem__: position, argument, locals, outcome
    callers, pc, rank_index, shard_key, shard_index, new_shard,
    result, outcome,
    \* TRUE once a shard constructor has raised inside __getitem__
    load_failed,
    \* ResumableSequentialSampler instances and their generators
    sampler, gen, yielded, iters, resumed_after,
    \* history of the current pass of non-decreasing gets (recorded only
    \* when pass_tracking is set): whether a pass is running, the cached key
    \* when it began, the first shard it resolved, the shards it resolved,
    \* and the shards whose constructor it called, in call order
    pass_tracking, pass_on, pass_start_key, pass_first, pass_touched,
    pass_seq,
    \* the index built by an earlier construction with the same arguments
    first_build,
    \* group_texts: its arguments and its return value
    examples, block_size, grouped

viewVars == <<rng, shard_params, rank, world_size, shuffle, seed,
              vpc, scan_pos, index, shard,
              shard_keys, shard_indices, total_samples,
              current_shard_key, current_shard,
              callers, pc, rank_index, shard_key, shard_index, new_shard,
              result, outcome, load_failed>>

ctorVars == <<vpc, scan_pos, index, shard,
              shard_keys, shard_indices, total_samples>>

argVars == <<shard_params, rank, world_size, shuffle, seed>>

samplerVars == <<sampler, gen, yielded, iters, resumed_after>>

passVars == <<pass_tracking, pass_on, pass_start_key, pass_first,
              pass_touched, pass_seq>>

groupVars == <<examples, block_size, grouped>>

vars == <<viewVars, samplerVars, passVars, first_build, groupVars>>

\* --------------------------------------------------------------- helpers
Min(S) == CHOOSE x \in S : \A y \in S : x <= y

\* sorted(shard_params.keys())
RECURSIVE SortedKeys(_)
SortedKeys(S) ==
    IF S = {} THEN <<>>
    ELSE <<Min(S)>> \o SortedKeys(S \ {Min(S)})

\* one step of the generator: the model's stand-in for the Mersenne
\* Twister is a full-period linear congruential generator
RngNext(r) == (5 * r + 3) % RngMod

\* random.seed(seed)
RngSeed(s) == s % RngMod

Swap(x, i, j) == [x EXCEPT ![i] = x[j], ![j] = x[i]]

\* random.shuffle(x): for i in reversed(range(1, len(x))):
\*     j = randbelow(i + 1); x[i], x[j] = x[j], x[i]
\* (positions are 1-based here); returns the list and the generator state
RECURSIVE ShuffleFrom(_, _, _)
ShuffleFrom(x, i, r) ==
    IF i < 2 THEN [keys |-> x, rng |-> r]
    ELSE LET r2 == RngNext(r)
             j == (r2 % i) + 1
         IN ShuffleFrom(Swap(x, i, j), i - 1, r2)

RandomShuffle(x, r) == ShuffleFrom(x, Len(x), r)

\* len(dataset_type(*args, **kwargs)) for the parameters of shard k
ShardLen(k) == shard_params[k]

\* dataset_type(...)[offset] on the content constructed for shard k;
\* an offset outside the content raises inside the shard
ContentInBounds(k, offset) == 0 <= offset /\ offset < ShardLen(k)
ContentGet(k, offset) == <<k, offset>>

\* --------------------------------------------------------------- initial
Registries ==
    UNION {[S -> 0..MaxLen] : S \in SUBSET Keys}

NoSampler == [data_length |-> 0, start_index |-> 0, index |-> 0]

SamplerIdle ==
    /\ sampler = [s \in SamplerIds |-> NoSampler]
    /\ gen = [s \in SamplerIds |-> "absent"]
    /\ yielded = [s \in SamplerIds |-> <<>>]
    /\ iters = [s \in SamplerIds |-> 0]
    /\ resumed_after = 0

NoBuild == <<>>
NoGroups == <<>>

\* no pass recorded
NoPass ==
    /\ pass_on = FALSE
    /\ pass_start_key = NoKey
    /\ pass_first = NoKey
    /\ pass_touched = {}
    /\ pass_seq = <<>>

\* group_texts is not in use
GroupIdle ==
    /\ examples = <<>>
    /\ block_size = 0
    /\ grouped = NoGroups

ViewFresh ==
    /\ vpc = "new"
    /\ scan_pos = 1
    /\ index = 0
    /\ shard = NoKey
    /\ shard_keys = <<>>
    /\ shard_indices = <<>>
    /\ total_samples = 0
    /\ current_shard_key = NoKey
    /\ current_shard = NoKey
    /\ pc = [c \in AllCallers |-> "idle"]
    /\ rank_index = [c \in AllCallers |-> 0]
    /\ shard_key = [c \in AllCallers |-> NoKey]
    /\ shard_index = [c \in AllCallers |-> 0]
    /\ new_shard = [c \in AllCallers |-> NoKey]
    /\ result = [c \in AllCallers |-> NoSample]
    /\ outcome = [c \in AllCallers |-> "none"]
    /\ load_failed = FALSE

Init ==
    /\ rng \in {0, 5}
    /\ shard_params \in Registries
    /\ world_size \in -1..MaxWorld
    /\ rank \in -1..MaxWorld
    /\ shuffle \in BOOLEAN
    /\ seed \in 0..MaxSeed
    /\ callers = {1}
    /\ ViewFresh
    /\ SamplerIdle
    /\ pass_tracking = FALSE
    /\ NoPass
    /\ first_build = NoBuild
    /\ GroupIdle

\* ------------------------------------------------- __init__ (lines 71-129)
\* the configuration checks accepting rank = world_size
ConfigErrorRankInclusive ==
    \/ ~(0 <= rank /\ rank <= world_size)
    \/ Cardinality(DOMAIN shard_params) = 0

\* lines 81-89: the two configuration checks
ConfigError ==
    \/ ~(0 <= rank /\ rank < world_size)
    \/ Cardinality(DOMAIN shard_params) = 0

\* the generator left in the state r it was found in
SeedGeneratorNot(r, s) == r

\* line 91: random.seed(seed) replaces the state r of the process-wide
\* generator
SeedGenerator(r, s) == RngSeed(s)

\* lines 99-101: the build ordering of the shard keys
OrderKeys(r) ==
    IF shuffle THEN RandomShuffle(SortedKeys(DOMAIN shard_params), r)
    ELSE [keys |-> SortedKeys(DOMAIN shard_params), rng |-> r]

\* lines 81-101: validate, seed the process-wide generator, order the keys
Construct ==
    /\ vpc = "new"
    /\ IF ConfigError
       THEN /\ vpc' = "ValueError"
            /\ UNCHANGED <<rng, shard_keys>>
       ELSE /\ vpc' = "scan"
            /\ shard_keys' = OrderKeys(SeedGenerator(rng, seed)).keys
            /\ rng' = OrderKeys(SeedGenerator(rng, seed)).rng
    /\ UNCHANGED <<argVars, scan_pos, index, shard, shard_indices,
                   total_samples, current_shard_key, current_shard,
                   callers, pc, rank_index, shard_key, shard_index,
                   new_shard, result, outcome, load_failed, samplerVars, passVars,
                   first_build, groupVars>>

\* line 107: shard = self.load_shard(shard_key)
ScanLoad ==
    /\ vpc = "scan"
    /\ scan_pos <= Len(shard_keys)
    /\ shard' = shard_keys[scan_pos]
    /\ vpc' = "loaded"
    /\ UNCHANGED <<rng, argVars, scan_pos, index, shard_keys, shard_indices,
                   total_samples, current_shard_key, current_shard,
                   callers, pc, rank_index, shard_key, shard_index,
                   new_shard, result, outcome, load_failed, samplerVars, passVars,
                   first_build, groupVars>>

\* line 107, the shard constructor raises: __init__ propagates the error
ScanLoadRaise ==
    /\ vpc = "scan"
    /\ scan_pos <= Len(shard_keys)
    /\ vpc' = "LoadError"
    /\ UNCHANGED <<rng, argVars, scan_pos, index, shard, shard_keys,
                   shard_indices, total_samples, current_shard_key,
                   current_shard, callers, pc, rank_index, shard_key,
                   shard_index, new_shard, result, outcome, load_failed,
                   samplerVars, passVars,
                   first_build, groupVars>>

\* lines 109-111: record the range, advance index, del shard
ScanRecord ==
    /\ vpc = "loaded"
    /\ shard_indices' =
           (shard :> <<index, index + ShardLen(shard)>>) @@ shard_indices
    /\ index' = index + ShardLen(shard)
    /\ shard' = NoKey
    /\ scan_pos' = scan_pos + 1
    /\ vpc' = "scan"
    /\ UNCHANGED <<rng, argVars, shard_keys, total_samples,
                   current_shard_key, current_shard,
                   callers, pc, rank_index, shard_key, shard_index,
                   new_shard, result, outcome, load_failed, samplerVars, passVars,
                   first_build, groupVars>>

\* the last range left as the scan recorded it
TruncateLastNot(r) == r

\* lines 116-119: the last range with its end cut to a multiple of world_size
TruncateLast(r) == <<r[1], r[2] - (r[2] % world_size)>>

\* lines 113-129: truncate the last range, set total_samples, check the
\* assertions, start with an empty cache
Finish ==
    /\ vpc = "scan"
    /\ scan_pos > Len(shard_keys)
    /\ LET last_shard_key == shard_keys[Len(shard_keys)]
           truncated == TruncateLast(shard_indices[last_shard_key])
           indices == [shard_indices EXCEPT ![last_shard_key] = truncated]
           total == truncated[2]
       IN /\ shard_indices' = indices
          /\ total_samples' = total
          /\ vpc' = IF /\ Len(shard_keys) = Cardinality(DOMAIN indices)
                       /\ Cardinality(DOMAIN indices)
                              = Cardinality(DOMAIN shard_params)
                       /\ (total \div world_size) * world_size = total
                    THEN "constructed"
                    ELSE "AssertionError"
    /\ current_shard_key' = NoKey
    /\ current_shard' = NoKey
    /\ UNCHANGED <<rng, argVars, scan_pos, index, shard, shard_keys,
                   callers, pc, rank_index, shard_key, shard_index,
                   new_shard, result, outcome, load_failed, samplerVars, passVars,
                   first_build, groupVars>>

\* ------------------------------------------------- __len__ (lines 131-132)
Length == total_samples \div world_size

\* the rank offset without the per-rank length
GlobalIndexUnscaled(r, ri) == r + ri

\* ------------------------- rank_index_to_global_index (lines 155-158)
\* r is self.rank of the view the method is called on
rank_index_to_global_index(r, ri) == Length * r + ri

\* -------------------------- rank_index_to_shard_index (lines 160-179)
\* line 173: the range of shard k contains the global index
InRange(k, global_index) ==
    /\ shard_indices[k][1] <= global_index
    /\ global_index < shard_indices[k][2]

\* lines 171-174: positions of shard_keys whose range contains the index
Matches(global_index) ==
    {i \in 1..Len(shard_keys) : InRange(shard_keys[i], global_index)}

\* lines 170-179: the first matching shard in build order and the offset in
\* it, or the AssertionError of line 175
rank_index_to_shard_index(r, ri) ==
    LET global_index == rank_index_to_global_index(r, ri)
        found == Matches(global_index)
    IN IF found = {}
       THEN [raised |-> TRUE, key |-> NoKey, offset |-> 0]
       ELSE LET k == shard_keys[Min(found)]
            IN [raised |-> FALSE, key |-> k,
                offset |-> global_index - shard_indices[k][1]]

\* --------------------------------------------- __getitem__ (lines 134-153)
\* arguments a caller may pass: every local index, some past the end, and
\* a negative one
GetArgs == IF vpc = "constructed" THEN -1..(Length + 1) ELSE {}

\* the range check letting length() itself through
OutOfRangeStrict(ri) == ri > Length

\* line 135: the range check
OutOfRange(ri) == ri >= Length

Return(c, value, how) ==
    /\ pc' = [pc EXCEPT ![c] = "idle"]
    /\ result' = [result EXCEPT ![c] = value]
    /\ outcome' = [outcome EXCEPT ![c] = how]
    /\ shard_key' = [shard_key EXCEPT ![c] = NoKey]
    /\ shard_index' = [shard_index EXCEPT ![c] = 0]

\* the history of the pass at a call of __getitem__: a call with an index
\* outside [0, length()) ends the pass; a call with an index not below the
\* previous one continues it; any other call begins a new pass
PassOnCall(c, ri) ==
    IF ~pass_tracking THEN UNCHANGED passVars
    ELSE /\ UNCHANGED pass_tracking
         /\ IF ri < 0 \/ OutOfRange(ri)
            THEN /\ pass_on' = FALSE
                 /\ pass_start_key' = NoKey
                 /\ pass_first' = NoKey
                 /\ pass_touched' = {}
                 /\ pass_seq' = <<>>
            ELSE LET k == rank_index_to_shard_index(rank, ri).key
                 IN IF pass_on /\ ri >= rank_index[c]
                    THEN /\ pass_touched' = pass_touched \cup {k}
                         /\ UNCHANGED <<pass_on, pass_start_key,
                                        pass_first, pass_seq>>
                    ELSE /\ pass_on' = TRUE
                         /\ pass_start_key' = current_shard_key
                         /\ pass_first' = k
                         /\ pass_touched' = {k}
                         /\ pass_seq' = <<>>

\* the history of the pass when line 147 calls the shard constructor
PassOnConstruct(c) ==
    IF pass_tracking /\ pass_on /\ Len(pass_seq) <= Len(shard_keys)
    THEN /\ pass_seq' = Append(pass_seq, shard_key[c])
         /\ UNCHANGED <<pass_tracking, pass_on, pass_start_key,
                        pass_first, pass_touched>>
    ELSE UNCHANGED passVars

\* lines 134-140: the call, the range check and the index translation
GetItem(c, ri) ==
    /\ vpc = "constructed"
    /\ pc[c] = "idle"
    /\ rank_index' = [rank_index EXCEPT ![c] = ri]
    /\ IF OutOfRange(ri)
       THEN Return(c, NoSample, "IndexError")
       ELSE LET at == rank_index_to_shard_index(rank, ri)
            IN IF at.raised
               THEN Return(c, NoSample, "AssertionError")
               ELSE /\ pc' = [pc EXCEPT ![c] = "compare"]
                    /\ shard_key' = [shard_key EXCEPT ![c] = at.key]
                    /\ shard_index' = [shard_index EXCEPT ![c] = at.offset]
                    /\ result' = [result EXCEPT ![c] = NoSample]
                    /\ outcome' = [outcome EXCEPT ![c] = "none"]
    /\ PassOnCall(c, ri)
    /\ UNCHANGED <<rng, argVars, ctorVars, current_shard_key, current_shard,
                   callers, new_shard, load_failed, samplerVars,
                   first_build, groupVars>>

\* the cache test without the comparison of the keys
CacheMissOnlyWhenEmpty(c) == current_shard_key = NoKey

\* the cache test that always reloads
CacheMissAlways(c) == TRUE

\* lines 142-145: the cache test
CacheMiss(c) ==
    \/ current_shard_key = NoKey
    \/ current_shard_key # shard_key[c]

Compare(c) ==
    /\ pc[c] = "compare"
    /\ pc' = [pc EXCEPT ![c] = IF CacheMiss(c) THEN "write_key" ELSE "index"]
    /\ UNCHANGED <<rng, argVars, ctorVars, current_shard_key, current_shard,
                   callers, rank_index, shard_key, shard_index, new_shard,
                   result, outcome, load_failed, samplerVars, passVars,
                   first_build, groupVars>>

\* line 146: self._current_shard_key = shard_key
WriteKey(c) ==
    /\ pc[c] = "write_key"
    /\ current_shard_key' = shard_key[c]
    /\ pc' = [pc EXCEPT ![c] = "load"]
    /\ UNCHANGED <<rng, argVars, ctorVars, current_shard,
                   callers, rank_index, shard_key, shard_index, new_shard,
                   result, outcome, load_failed, samplerVars, passVars,
                   first_build, groupVars>>

\* line 147, right-hand side: self.load_shard(shard_key) returns the new
\* content while self._current_shard still refers to the previous one
LoadShard(c) ==
    /\ pc[c] = "load"
    /\ new_shard' = [new_shard EXCEPT ![c] = shard_key[c]]
    /\ pc' = [pc EXCEPT ![c] = "store"]
    /\ PassOnConstruct(c)
    /\ UNCHANGED <<rng, argVars, ctorVars, current_shard_key, current_shard,
                   callers, rank_index, shard_key, shard_index,
                   result, outcome, load_failed, samplerVars,
                   first_build, groupVars>>

\* line 147, the shard constructor raises: the error leaves __getitem__
\* after line 146 has already run
LoadShardRaise(c) ==
    /\ pc[c] = "load"
    /\ Return(c, NoSample, "LoadError")
    /\ load_failed' = TRUE
    /\ PassOnConstruct(c)
    /\ UNCHANGED <<rng, argVars, ctorVars, current_shard_key, current_shard,
                   callers, rank_index, new_shard, samplerVars,
                   first_build, groupVars>>

\* line 147, the assignment: the previous content loses its last reference
StoreShard(c) ==
    /\ pc[c] = "store"
    /\ current_shard' = new_shard[c]
    /\ new_shard' = [new_shard EXCEPT ![c] = NoKey]
    /\ pc' = [pc EXCEPT ![c] = "index"]
    /\ UNCHANGED <<rng, argVars, ctorVars, current_shard_key,
                   callers, rank_index, shard_key, shard_index,
                   result, outcome, load_failed, samplerVars, passVars,
                   first_build, groupVars>>

\* lines 151-153: the assertion and self._current_shard[shard_index]
IndexShard(c) ==
    /\ pc[c] = "index"
    /\ IF current_shard = NoKey
       THEN Return(c, NoSample, "AssertionError")
       ELSE IF ContentInBounds(current_shard, shard_index[c])
            THEN Return(c, ContentGet(current_shard, shard_index[c]), "ok")
            ELSE Return(c, NoSample, "ShardIndexError")
    /\ UNCHANGED <<rng, argVars, ctorVars, current_shard_key, current_shard,
                   callers, rank_index, new_shard, load_failed, samplerVars, passVars,
                   first_build, groupVars>>

Next ==
    \/ Construct
    \/ ScanLoad
    \/ ScanLoadRaise
    \/ ScanRecord
    \/ Finish
    \/ \E c \in callers : \E ri \in GetArgs : GetItem(c, ri)
    \/ \E c \in callers : Compare(c)
    \/ \E c \in callers : WriteKey(c)
    \/ \E c \in callers : LoadShard(c)
    \/ \E c \in callers : LoadShardRaise(c)
    \/ \E c \in callers : StoreShard(c)
    \/ \E c \in callers : IndexShard(c)

Spec == Init /\ [][Next]_vars

\* the same view with the history of its passes recorded
PassInit ==
    /\ rng = 0
    /\ shard_params \in Registries
    /\ world_size \in 1..MaxWorld
    /\ rank \in 0..(world_size - 1)
    /\ shuffle \in BOOLEAN
    /\ seed \in 0..MaxSeed
    /\ callers = {1}
    /\ ViewFresh
    /\ SamplerIdle
    /\ pass_tracking = TRUE
    /\ NoPass
    /\ first_build = NoBuild
    /\ GroupIdle

PassSpec == PassInit /\ [][Next]_vars

\* ------------------------------------------ building the index twice
\* some other code of the process draws from the process-wide generator
\* before a view is constructed
UseRandom ==
    /\ vpc = "new"
    /\ rng' = RngNext(rng)
    /\ UNCHANGED <<argVars, ctorVars, current_shard_key, current_shard,
                   callers, pc, rank_index, shard_key, shard_index,
                   new_shard, result, outcome, load_failed, samplerVars,
                   passVars, first_build, groupVars>>

\* the index of the constructed view
BuiltIndex ==
    [keys |-> shard_keys, indices |-> shard_indices, total |-> total_samples]

\* the process constructs another view with the same arguments; the index
\* of the first one is kept for comparison
Rebuild ==
    /\ vpc = "constructed"
    /\ first_build = NoBuild
    /\ first_build' = BuiltIndex
    /\ vpc' = "new"
    /\ scan_pos' = 1
    /\ index' = 0
    /\ shard' = NoKey
    /\ shard_keys' = <<>>
    /\ shard_indices' = <<>>
    /\ total_samples' = 0
    /\ current_shard_key' = NoKey
    /\ current_shard' = NoKey
    /\ UNCHANGED <<rng, argVars, callers, pc, rank_index, shard_key,
                   shard_index, new_shard, result, outcome, load_failed,
                   samplerVars, passVars, groupVars>>

BuildInit ==
    /\ rng \in 0..(RngMod - 1)
    /\ shard_params \in Registries
    /\ world_size \in 1..MaxWorld
    /\ rank = 0
    /\ shuffle \in BOOLEAN
    /\ seed \in 0..MaxSeed
    /\ callers = {}
    /\ ViewFresh
    /\ SamplerIdle
    /\ pass_tracking = FALSE
    /\ NoPass
    /\ first_build = NoBuild
    /\ GroupIdle

BuildNext ==
    \/ UseRandom
    \/ Construct
    \/ ScanLoad
    \/ ScanLoadRaise
    \/ ScanRecord
    \/ Finish
    \/ Rebuild

BuildSpec == BuildInit /\ [][BuildNext]_vars

\* one view, covering every sample, that may be shared by two callers
\* running __getitem__ without synchronization
SharedInit ==
    /\ rng = 0
    /\ shard_params \in [Keys -> 1..MaxLen]
    /\ world_size = 1
    /\ rank = 0
    /\ shuffle = FALSE
    /\ seed = 0
    /\ callers \in {{1}, AllCallers}
    /\ ViewFresh
    /\ SamplerIdle
    /\ pass_tracking = FALSE
    /\ NoPass
    /\ first_build = NoBuild
    /\ GroupIdle

SharedSpec == SharedInit /\ [][Next]_vars

\* ------------------------------------------------------------ type check
TypeOK ==
    /\ vpc \in {"new", "scan", "loaded", "constructed",
                "ValueError", "LoadError", "AssertionError"}
    /\ current_shard_key \in Keys \cup {NoKey}
    /\ current_shard \in Keys \cup {NoKey}
    /\ \A c \in AllCallers :
           pc[c] \in {"idle", "compare", "write_key", "load", "store", "index"}

\* ----------------------------- ResumableSequentialSampler (lines 186-205)
\* a sampler whose position ignores start_index
NewSamplerFromZero(n, s) ==
    [data_length |-> n, start_index |-> s, index |-> 0]

\* lines 194-197: __init__(data_source, start_index), n = len(data_source)
NewSampler(n, s) == [data_length |-> n, start_index |-> s, index |-> s]

\* lines 204-205: __len__
SamplerLen(id) == sampler[id].data_length - sampler[id].start_index

\* a view with no caller, never constructed
NoView ==
    /\ rng = 0
    /\ shard_params = <<>>
    /\ world_size = 0
    /\ rank = 0
    /\ shuffle = FALSE
    /\ seed = 0
    /\ callers = {}
    /\ ViewFresh
    /\ pass_tracking = FALSE
    /\ NoPass
    /\ first_build = NoBuild

\* the original sampler is built with a start_index in [0, length]
SamplerInit ==
    /\ NoView
    /\ GroupIdle
    /\ \E n \in 0..MaxDataLen : \E s \in 0..n :
           sampler = [id \in SamplerIds |->
                         IF id = "orig" THEN NewSampler(n, s) ELSE NoSampler]
    /\ gen = [id \in SamplerIds |-> IF id = "orig" THEN "none" ELSE "absent"]
    /\ yielded = [id \in SamplerIds |-> <<>>]
    /\ iters = [id \in SamplerIds |-> 0]
    /\ resumed_after = 0

\* line 199: iter(sampler) makes a new generator; nothing of its body has
\* run yet, and a generator left suspended by an earlier iteration is dropped
Iter(id) ==
    /\ gen[id] # "absent"
    /\ iters[id] < MaxIters
    /\ gen' = [gen EXCEPT ![id] = "created"]
    /\ yielded' = [yielded EXCEPT ![id] = <<>>]
    /\ iters' = [iters EXCEPT ![id] = @ + 1]
    /\ UNCHANGED <<viewVars, passVars, first_build, groupVars, sampler, resumed_after>>

\* line 202 when resuming after a yield, nothing on the first entry
AfterYield(id) ==
    IF gen[id] = "suspended" THEN sampler[id].index + 1 ELSE sampler[id].index

\* line 200: the loop test
MoreToYield(id, i) == i < sampler[id].data_length

\* lines 200-202: next(generator) runs to the next yield or to the end
NextIndex(id) ==
    /\ gen[id] \in {"created", "suspended"}
    /\ LET i == AfterYield(id)
       IN /\ sampler' = [sampler EXCEPT ![id].index = i]
          /\ IF MoreToYield(id, i)
             THEN /\ yielded' = [yielded EXCEPT ![id] = Append(@, i)]
                  /\ gen' = [gen EXCEPT ![id] = "suspended"]
             ELSE /\ gen' = [gen EXCEPT ![id] = "exhausted"]
                  /\ UNCHANGED yielded
    /\ UNCHANGED <<viewVars, passVars, first_build, groupVars, iters, resumed_after>>

\* the harness, having consumed k values of the first iteration of a sampler
\* built with start_index s, builds a fresh sampler over the same data
\* source with start_index = s + k
Resume ==
    /\ gen["resumed"] = "absent"
    /\ iters["orig"] = 1
    /\ LET k == Len(yielded["orig"])
           v == sampler["orig"].start_index + k
       IN /\ sampler' = [sampler EXCEPT
                 !["resumed"] = NewSampler(sampler["orig"].data_length, v)]
          /\ resumed_after' = k
    /\ gen' = [gen EXCEPT !["resumed"] = "none"]
    /\ UNCHANGED <<viewVars, passVars, first_build, groupVars, yielded, iters>>

SamplerNext ==
    \/ \E id \in SamplerIds : Iter(id)
    \/ \E id \in SamplerIds : NextIndex(id)
    \/ Resume

SamplerSpec == SamplerInit /\ [][SamplerNext]_vars

\* ------------------- group_texts (llm/trainers/gpt/data.py, lines 167-185)
Tokens == {0, 1}
Columns == {"input_ids", "attention_mask"}

\* the first key of the examples dict
FirstColumn == "input_ids"

\* one tokenized text, and a batch of them
Texts == UNION {[1..n -> Tokens] : n \in 0..MaxTextLen}
Batches == UNION {[1..n -> Texts] : n \in 0..MaxTexts}

\* the attention mask a tokenizer returns with a batch of input ids
MaskOf(batch) == [i \in 1..Len(batch) |-> [j \in 1..Len(batch[i]) |-> 1]]

\* line 171: list(itertools.chain(*texts))
RECURSIVE Chain(_)
Chain(texts) ==
    IF texts = <<>> THEN <<>>
    ELSE Head(texts) \o Chain(Tail(texts))

\* the total length left as it is
WholeLength(n, b) == n

\* line 178: (total_length // block_size) * block_size
BlockedLength(n, b) == (n \div b) * b

\* t[i : i + block_size] for the 0-based i: the slice stops at the end of t
Slice(t, i, b) ==
    IF i >= Len(t) THEN <<>>
    ELSE SubSeq(t, i + 1, IF i + b <= Len(t) THEN i + b ELSE Len(t))

\* line 181: [t[i : i + block_size] for i in range(0, total_length,
\* block_size)]
ChunksOf(t, total_length, b) ==
    [j \in 1..((total_length + b - 1) \div b) |-> Slice(t, (j - 1) * b, b)]

\* lines 170-185: the value group_texts returns
group_texts(ex, b) ==
    LET concatenated_examples == [k \in DOMAIN ex |-> Chain(ex[k])]
        total_length ==
            BlockedLength(Len(concatenated_examples[FirstColumn]), b)
        chunked == [k \in DOMAIN ex |->
                       ChunksOf(concatenated_examples[k], total_length, b)]
    IN [k \in DOMAIN ex \cup {"labels"} |->
           IF k = "labels" THEN chunked["input_ids"] ELSE chunked[k]]

GroupInit ==
    /\ NoView
    /\ SamplerIdle
    /\ \E batch \in Batches :
           examples = [k \in Columns |->
                          IF k = "input_ids" THEN batch ELSE MaskOf(batch)]
    /\ block_size \in 1..MaxBlock
    /\ grouped = NoGroups

\* datasets.map calls group_texts on the batch
GroupTexts ==
    /\ grouped = NoGroups
    /\ grouped' = group_texts(examples, block_size)
    /\ UNCHANGED <<viewVars, samplerVars, passVars, first_build,
                   examples, block_size>>

GroupNext == GroupTexts

GroupSpec == GroupInit /\ [][GroupNext]_vars

\* ================================================================ claims
\* the samples of shard k in offset order
ShardSamples(k) == [o \in 1..ShardLen(k) |-> <<k, o - 1>>]

\* the concatenation of the contents of the shards at positions 1..n of the
\* build ordering
RECURSIVE ConcatUpTo(_)
ConcatUpTo(n) ==
    IF n = 0 THEN <<>>
    ELSE ConcatUpTo(n - 1) \o ShardSamples(shard_keys[n])

Concat == ConcatUpTo(Len(shard_keys))

RECURSIVE SumLens(_)
SumLens(S) ==
    IF S = {} THEN 0
    ELSE LET k == Min(S) IN ShardLen(k) + SumLens(S \ {k})

\* the sum of the lengths of all registered shards
RawTotal == SumLens(DOMAIN shard_params)

\* the sum of the lengths of the shards before position i of the ordering
PrefixSum(i) == SumLens({shard_keys[j] : j \in 1..(i - 1)})

Constructed == vpc = "constructed"
ValidRanks == 0..(world_size - 1)
ValidIndices == 0..(Length - 1)
Returned(c) == pc[c] = "idle" /\ outcome[c] # "none"

\* C1: a get with a valid rank_index, after any earlier gets none of which
\* failed inside a shard constructor, returns the sample at position
\* per_rank_length*rank + rank_index of the concatenation of the shard
\* contents in build order.
C1_GetReturnsConcatSample ==
    \A c \in callers :
        (/\ Constructed
         /\ Returned(c)
         /\ rank_index[c] \in ValidIndices
         /\ ~load_failed)
        => /\ outcome[c] = "ok"
           /\ result[c] = Concat[Length * rank + rank_index[c] + 1]

\* a get on a rank other than 0 returned a sample of a shard that is not
\* the first of a shuffled ordering, at a non-zero offset
C1_Witness ==
    /\ Constructed
    /\ Returned(1)
    /\ outcome[1] = "ok"
    /\ rank >= 1
    /\ rank_index[1] >= 1
    /\ shuffle
    /\ shard_keys # SortedKeys(DOMAIN shard_params)
    /\ result[1][1] # shard_keys[1]
    /\ result[1][2] >= 1

\* C2 (as claimed): after construction the ranges in key order are
\* well-formed half-open intervals, the first starts at 0, each starts where
\* the previous one ends, and their union is [0, total_samples).
C2_RangesPartitionTotal ==
    Constructed =>
        /\ \A k \in DOMAIN shard_indices :
               shard_indices[k][1] <= shard_indices[k][2]
        /\ shard_indices[shard_keys[1]][1] = 0
        /\ \A i \in 2..Len(shard_keys) :
               shard_indices[shard_keys[i]][1]
                   = shard_indices[shard_keys[i - 1]][2]
        /\ \A i, j \in 1..Len(shard_keys) :
               i # j => \A g \in 0..RawTotal :
                   ~(InRange(shard_keys[i], g) /\ InRange(shard_keys[j], g))
        /\ \A g \in -1..RawTotal :
               (\E k \in DOMAIN shard_indices : InRange(k, g))
                   <=> (0 <= g /\ g < total_samples)

\* the positions (rank, rank_index) at which get returns the sample at
\* offset o of shard k
ReturnedAt(k, o) ==
    {p \in ValidRanks \X ValidIndices :
        LET at == rank_index_to_shard_index(p[1], p[2])
        IN ~at.raised /\ at.key = k /\ at.offset = o}

\* C3 (as claimed): total_samples is the largest multiple of world_size not
\* above the sum of the shard lengths, every shard but the last in order
\* keeps its untruncated prefix-sum range, and every sample of those shards
\* is returned for exactly one valid (rank, rank_index).
C3_OnlyLastShardLosesSamples ==
    Constructed =>
        /\ total_samples = RawTotal - (RawTotal % world_size)
        /\ \A i \in 1..(Len(shard_keys) - 1) :
               shard_indices[shard_keys[i]]
                   = <<PrefixSum(i), PrefixSum(i) + ShardLen(shard_keys[i])>>
        /\ \A i \in 1..(Len(shard_keys) - 1) :
               \A o \in 0..(ShardLen(shard_keys[i]) - 1) :
                   Cardinality(ReturnedAt(shard_keys[i], o)) = 1

\* C4: for every constructed view total_samples is a multiple of world_size,
\* length() is the rank-independent value floor(sum / world_size), world_size
\* times length() is total_samples, and the assertion of line 126 never fails.
C4_DivisibleEqualSlices ==
    /\ vpc # "AssertionError"
    /\ Constructed =>
           /\ total_samples % world_size = 0
           /\ Length = RawTotal \div world_size
           /\ world_size * Length = total_samples

\* a view was constructed whose last shard had to be truncated
C4_Witness ==
    /\ Constructed
    /\ RawTotal % world_size # 0
    /\ world_size >= 2
    /\ Length >= 1

\* C5: over the valid ranks and rank indices, (rank, rank_index) -> global
\* index is a bijection onto [0, total_samples), global index ->
\* (shard_key, offset) is injective and never fails, and
\* range_start + offset - length()*rank recovers rank_index.
C5_Bijection ==
    Constructed =>
        LET Pairs == ValidRanks \X ValidIndices
            G(p) == rank_index_to_global_index(p[1], p[2])
            S(p) == rank_index_to_shard_index(p[1], p[2])
        IN /\ \A p, q \in Pairs : p # q => G(p) # G(q)
           /\ {G(p) : p \in Pairs} = 0..(total_samples - 1)
           /\ \A p \in Pairs : ~S(p).raised
           /\ \A p, q \in Pairs :
                  p # q => <<S(p).key, S(p).offset>> # <<S(q).key, S(q).offset>>
           /\ \A p \in Pairs :
                  shard_indices[S(p).key][1] + S(p).offset - Length * p[1]
                      = p[2]

\* a constructed view with several ranks, several indices per rank and
\* several non-empty shards
C5_Witness ==
    /\ Constructed
    /\ world_size >= 2
    /\ Length >= 2
    /\ Cardinality({k \in DOMAIN shard_params : ShardLen(k) >= 1}) >= 2

\* shard contents constructed by the view that are still referenced: the
\* local of the construction scan, the cache cell, and the value of
\* load_shard not yet assigned
ResidentCount ==
    (IF shard # NoKey THEN 1 ELSE 0)
    + (IF current_shard # NoKey THEN 1 ELSE 0)
    + Cardinality({c \in AllCallers : new_shard[c] # NoKey})

\* C6 (as claimed): at every step at most one shard content constructed by
\* the view is still referenced, and none when construction finishes.
C6_AtMostOneResident ==
    /\ ResidentCount <= 1
    /\ (Constructed /\ \A c \in AllCallers : outcome[c] = "none"
            /\ pc[c] = "idle")
           => ResidentCount = 0

\* the values start_index, ..., data_length - 1 of sampler id, ascending
FullRun(id) ==
    [i \in 1..SamplerLen(id) |-> sampler[id].start_index + i - 1]

FirstIteration(id) == iters[id] = 1 /\ gen[id] # "none"

\* C7: a fresh sampler built with start_index = s + k, k being the number of
\* values consumed from a sampler built with start_index s, yields what the
\* original yields after its first k values, in the same order: value for
\* value while both run, and the same number of values once both are
\* exhausted.
C7_ResumeYieldsSuffix ==
    (FirstIteration("orig") /\ FirstIteration("resumed")) =>
        /\ \A i \in 1..Len(yielded["resumed"]) :
               /\ yielded["resumed"][i]
                      = sampler["resumed"].start_index + i - 1
               /\ (resumed_after + i <= Len(yielded["orig"])
                      => yielded["orig"][resumed_after + i]
                             = yielded["resumed"][i])
        /\ (gen["orig"] = "exhausted" /\ gen["resumed"] = "exhausted")
               => yielded["resumed"]
                      = SubSeq(yielded["orig"], resumed_after + 1,
                               Len(yielded["orig"]))

\* a sampler resumed after some but not all values were consumed has been
\* run to exhaustion, as has the original, and it yielded several values
C7_Witness ==
    /\ FirstIteration("orig")
    /\ FirstIteration("resumed")
    /\ gen["orig"] = "exhausted"
    /\ gen["resumed"] = "exhausted"
    /\ resumed_after >= 1
    /\ Len(yielded["resumed"]) >= 2
    /\ sampler["orig"].start_index >= 1

\* C8 (as claimed): every iteration of a sampler run to exhaustion, the
\* first and any later one, yields start_index, ..., length-1, so the number
\* of values equals len().
C8_EveryIterationYieldsFullRun ==
    \A id \in SamplerIds :
        gen[id] = "exhausted" =>
            /\ yielded[id] = FullRun(id)
            /\ Len(yielded[id]) = SamplerLen(id)

\* C9: a get with rank_index >= length() raises IndexError, returns no
\* sample, and leaves the cache cell and the set of constructed shards as
\* they were.
C9_OutOfRangeRaises ==
    [][\A c \in callers : \A ri \in GetArgs :
          (ri >= Length /\ GetItem(c, ri)) =>
              /\ pc'[c] = "idle"
              /\ outcome'[c] = "IndexError"
              /\ outcome'[c] # "ValueError"
              /\ result'[c] = NoSample
              /\ UNCHANGED <<current_shard_key, current_shard, new_shard>>
      ]_vars

\* get(length()) raised IndexError on a view whose cache holds a shard
C9_Witness ==
    /\ Constructed
    /\ Returned(1)
    /\ rank_index[1] = Length
    /\ outcome[1] = "IndexError"
    /\ current_shard # NoKey
    /\ current_shard_key = current_shard

\* the configurations section 7 of the design calls configuration errors
BadConfig ==
    \/ rank < 0
    \/ rank >= world_size
    \/ world_size <= 0
    \/ DOMAIN shard_params = {}

\* C10: with rank < 0, rank >= world_size, world_size <= 0 or an empty
\* registry, construction ends in ValueError: it never scans a shard, never
\* holds a shard content and never yields a view.
C10_BadConfigRaisesValueError ==
    BadConfig =>
        /\ vpc \in {"new", "ValueError"}
        /\ ResidentCount = 0
        /\ shard_keys = <<>>
        /\ DOMAIN shard_indices = {}

\* construction with rank = world_size failed
C10_Witness ==
    /\ vpc = "ValueError"
    /\ rank = world_size
    /\ world_size >= 1
    /\ DOMAIN shard_params # {}

\* the position of shard k in the build ordering
Position(k) == Min({i \in 1..Len(shard_keys) : shard_keys[i] = k})

\* the number of times the pass called the constructor of shard k
PassConstructions(k) ==
    Cardinality({i \in 1..Len(pass_seq) : pass_seq[i] = k})

\* the constructor calls of the pass are in build order, each later-called
\* shard after the one before it
PassInBuildOrder ==
    \A i \in 1..(Len(pass_seq) - 1) :
        Position(pass_seq[i]) < Position(pass_seq[i + 1])

BetweenGets == \A c \in callers : pc[c] = "idle"

\* C11 (as claimed): in a pass of gets with non-decreasing valid indices the
\* shards are constructed in build order and every shard the pass touches is
\* constructed exactly once during the pass (stated for views on which no
\* shard constructor has raised).
C11_EachTouchedShardOnce ==
    (pass_on /\ BetweenGets /\ ~load_failed) =>
        /\ PassInBuildOrder
        /\ \A k \in pass_touched : PassConstructions(k) = 1

\* C11 (amended): in such a pass the constructor calls are in build order,
\* and the constructor of every touched shard is called exactly once, except
\* that it is not called for the first shard of the pass when the cache cell
\* already holds that shard's key as the pass begins; nothing else is
\* constructed.
C11_OncePerPassUnlessCached ==
    (pass_on /\ BetweenGets) =>
        /\ PassInBuildOrder
        /\ \A k \in pass_touched :
               PassConstructions(k)
                   = IF k = pass_first /\ k = pass_start_key THEN 0 ELSE 1
        /\ \A i \in 1..Len(pass_seq) : pass_seq[i] \in pass_touched

\* a pass that began on the cached shard has gone on to construct another
C11_Witness ==
    /\ pass_on
    /\ BetweenGets
    /\ pass_start_key = pass_first
    /\ pass_first # NoKey
    /\ Len(pass_seq) >= 1
    /\ Cardinality(pass_touched) >= 2
    /\ outcome[1] = "ok"

\* the shard that the last get of caller c resolved its rank_index to
ResolvedKey(c) == rank_index_to_shard_index(rank, rank_index[c]).key

\* the last get of caller c returned a sample of a shard other than the one
\* its rank_index resolves to
WrongShardReturned(c) ==
    /\ Constructed
    /\ Returned(c)
    /\ outcome[c] = "ok"
    /\ result[c][1] # ResolvedKey(c)

\* C12: when no shard constructor has raised, a get returns a sample of a
\* shard other than the one its rank_index resolves to only on a view that
\* two callers share; on such a view there is an interleaving of the steps
\* of two gets in which it happens (the witness).
C12_WrongShardOnlyWhenShared ==
    \A c \in callers :
        (WrongShardReturned(c) /\ ~load_failed) => callers = AllCallers

\* two callers share the view, their last gets resolved to different
\* shards, and one of them returned a sample of the other's shard
C12_Witness ==
    /\ callers = AllCallers
    /\ ~load_failed
    /\ \E c \in callers : \E d \in callers \ {c} :
           /\ WrongShardReturned(c)
           /\ ResolvedKey(c) # ResolvedKey(d)
           /\ rank_index[c] \in ValidIndices
           /\ rank_index[d] \in ValidIndices
           /\ result[c][1] = ResolvedKey(d)

\* C13: a second build with the same registry, shuffle flag and seed gives
\* the same key ordering, the same ranges and the same total_samples as the
\* first, whatever state the process-wide generator was in before either.
C13_RebuildIsIdentical ==
    (Constructed /\ first_build # NoBuild) => BuiltIndex = first_build

\* two builds with shuffling have finished, and the ordering is not the
\* sorted one
C13_Witness ==
    /\ Constructed
    /\ first_build # NoBuild
    /\ shuffle
    /\ first_build.keys # SortedKeys(DOMAIN shard_params)
    /\ first_build.total >= 1

\* the position in the concatenation of the sample at offset o of shard k
GlobalPosition(k, o) == PrefixSum(Position(k)) + o

\* C14 (as claimed): whenever get(rank_index) returns a sample on a view of
\* rank r, rank_index lies in [0, length()) and the sample's global index
\* lies in [length()*r, length()*(r+1)) (stated for views on which no shard
\* constructor has raised).
C14_OnlyOwnSlice ==
    \A c \in callers :
        (Constructed /\ Returned(c) /\ outcome[c] = "ok" /\ ~load_failed) =>
            /\ rank_index[c] \in ValidIndices
            /\ GlobalPosition(result[c][1], result[c][2]) >= Length * rank
            /\ GlobalPosition(result[c][1], result[c][2])
                   < Length * (rank + 1)

\* the cache cell is empty, or holds the content constructed from the
\* parameters of the cached key
CacheConsistent ==
    /\ (current_shard_key = NoKey) <=> (current_shard = NoKey)
    /\ current_shard # NoKey => current_shard = current_shard_key

\* C15 (as claimed): between gets, whether they returned or raised, the
\* cache cell is consistent, the assertion of line 151 has not failed, and
\* no get has indexed into the content of a shard other than its own.
C15_CacheConsistentBetweenGets ==
    (Constructed /\ BetweenGets) =>
        /\ CacheConsistent
        /\ \A c \in callers :
               /\ ~(outcome[c] = "AssertionError"
                       /\ rank_index[c] \in ValidIndices)
               /\ outcome[c] # "ShardIndexError"
               /\ ~WrongShardReturned(c)

\* C16 (as claimed): for every valid rank_index of a constructed view,
\* rank_index_to_shard_index returns without the AssertionError and the
\* offset lies inside the named shard's content, so that no get with a valid
\* index accesses the shard content out of bounds.
C16_OffsetInBounds ==
    Constructed =>
        /\ \A ri \in ValidIndices :
               LET at == rank_index_to_shard_index(rank, ri)
               IN /\ ~at.raised
                  /\ at.key \in DOMAIN shard_params
                  /\ ContentInBounds(at.key, at.offset)
        /\ \A c \in callers :
               (Returned(c) /\ rank_index[c] \in ValidIndices)
                   => outcome[c] # "ShardIndexError"

\* what construction fixes: the ordering, the ranges, total_samples, rank,
\* world_size and the registry
builtVars == <<shard_keys, shard_indices, total_samples, rank, world_size,
               shard_params>>

cacheVars == <<current_shard_key, current_shard>>

\* C17: once the view is constructed no step of any operation changes the
\* ordering, the ranges, total_samples, rank, world_size or the registry;
\* the step of get that translates the index (the two translation methods)
\* changes neither the cache cell nor the set of constructed shards; and get
\* goes on to change the cache cell only from a comparison in which the
\* resolved key differs from the cached key.
C17_FrameOfOperations ==
    [][Constructed =>
          /\ UNCHANGED builtVars
          /\ \A c \in callers :
                 /\ pc[c] = "idle" => UNCHANGED <<cacheVars, new_shard>>
                 /\ (pc[c] = "compare" /\ pc'[c] # "compare") =>
                        /\ UNCHANGED <<cacheVars, new_shard>>
                        /\ pc'[c] = IF current_shard_key # shard_key[c]
                                    THEN "write_key" ELSE "index"
                 /\ pc[c] = "index" => UNCHANGED <<cacheVars, new_shard>>
          /\ ~UNCHANGED cacheVars =>
                 \E c \in callers :
                     /\ pc[c] \in {"write_key", "store"}
                     /\ pc'[c] # pc[c]
          /\ \A c \in callers :
                 pc'[c] \in {"write_key", "load", "store"} =>
                     pc[c] \in {"compare", "write_key", "load", "store"}
      ]_vars

\* a get found its shard in the cache and is about to index it
C17_Witness ==
    /\ Constructed
    /\ pc[1] = "index"
    /\ rank_index[1] >= 1
    /\ current_shard_key = shard_key[1]
    /\ current_shard = current_shard_key
    /\ shard_index[1] >= 1
    /\ outcome[1] = "none"

\* C18: with every column of the same concatenated length n, group_texts
\* returns for each input column floor(n / block_size) chunks of exactly
\* block_size elements whose concatenation is the first
\* floor(n / block_size) * block_size elements of the column, and a labels
\* column equal to the input_ids column.
C18_GroupTextsChunks ==
    (grouped # NoGroups
        /\ \A k \in Columns :
               Len(Chain(examples[k])) = Len(Chain(examples[FirstColumn])))
    => LET n == Len(Chain(examples[FirstColumn]))
           q == n \div block_size
       IN /\ DOMAIN grouped = Columns \cup {"labels"}
          /\ \A k \in Columns :
                 /\ Len(grouped[k]) = q
                 /\ \A j \in 1..Len(grouped[k]) :
                        Len(grouped[k][j]) = block_size
                 /\ Chain(grouped[k])
                        = SubSeq(Chain(examples[k]), 1, q * block_size)
          /\ grouped["labels"] = grouped["input_ids"]
          /\ n < block_size => grouped["input_ids"] = <<>>

\* a batch of two texts was grouped into several chunks and a remainder
\* was dropped
C18_Witness ==
    /\ grouped # NoGroups
    /\ Len(examples["input_ids"]) >= 2
    /\ Len(Chain(examples["input_ids"])) % block_size # 0
    /\ Len(grouped["input_ids"]) >= 2
    /\ grouped["input_ids"][1] # grouped["input_ids"][2]

====
